---- MODULE Spec2Model ----
(***************************************************************************)
(* Request/response pipeline of the Orb billing client:                    *)
(*   - ClientBuilder::default / with_retry_policy / build  (config.rs)     *)
(*   - the retry middleware driven by Retry429::handle      (config.rs)     *)
(*   - Client::send_request (status split, body decoding)   (client.rs)     *)
(*   - Client::stream_paginated_request (try_stream! loop)   (client.rs)     *)
(* The remote service and the transport are the environment: every attempt *)
(* gets a nondeterministic outcome, and a list endpoint serves a list of   *)
(* srvN items in pages of page_size items.                                 *)
(***************************************************************************)
EXTENDS Integers, Sequences, FiniteSets, TLC

\* ---------------------------------------------------------------- bounds
\* Largest max_retries handed to with_retry_policy.
MaxRetriesBound == 2
\* Largest number of items the list endpoint holds.
MaxN == 4
\* Largest ListParams::page_size.
MaxPageSize == 2
\* Largest number of conversions made of one enumerated-string input.
MaxConversions == 2
MaxListN == 3
MaxLiveN == 2
MaxPages == 4
MaxOps == 2

\* ------------------------------------------------------ program constants
\* build_with_max_retries(5) of the default builder.
DefaultMaxRetries == 5
\* The status Retry429 retries.
TooManyRequests == 429

\* ---------------------------------------------------------------- options
None == [some |-> FALSE]
Some(x) == [some |-> TRUE, val |-> x]

Min(a, b) == IF a < b THEN a ELSE b

\* ceil(n / p) for n >= 0, p >= 1
CeilDiv(n, p) == (n + p - 1) \div p

\* ------------------------------------------------------------ JSON values
Absent == [t |-> "absent"]
Null == [t |-> "null"]
Str(s) == [t |-> "str", s |-> s]
Arr(a) == [t |-> "arr", a |-> a]
Num == [t |-> "num"]

\* A response body.  readable: the body arrives whole (res.text()/res.json()
\* do not fail at the network level); json: it parses as a JSON object;
\* typed: it decodes as the type T the caller expects; title, detail,
\* validation_errors: the members of the JSON object that ErrorResponse reads.
Body(readable, json, typed, title, detail, ve) ==
    [readable |-> readable, json |-> json, typed |-> typed,
     title |-> title, detail |-> detail, validation_errors |-> ve]

NoBody == Body(FALSE, FALSE, FALSE, Absent, Absent, Absent)

\* Bodies a 2xx response can carry.
SuccessBodies ==
    { Body(TRUE, TRUE, TRUE, Absent, Absent, Absent),    \* decodes as T
      Body(TRUE, TRUE, FALSE, Absent, Absent, Absent),   \* JSON, but not a T
      Body(TRUE, FALSE, FALSE, Absent, Absent, Absent),  \* not JSON
      Body(FALSE, FALSE, FALSE, Absent, Absent, Absent) }\* body read fails

\* Bodies a non-2xx response can carry.
ErrorBodies ==
    { Body(TRUE, TRUE, FALSE, Str("Conflict"), Absent, Absent),
      Body(TRUE, TRUE, FALSE, Str("Conflict"), Null, Absent),
      Body(TRUE, TRUE, FALSE, Str("Not Found"), Str("no such customer"), Absent),
      Body(TRUE, TRUE, FALSE, Str("Bad Request"), Str("invalid"), Arr(<<"name: required">>)),
      Body(TRUE, TRUE, FALSE, Str("Bad Request"), Absent, Arr(<<>>)),
      Body(TRUE, TRUE, FALSE, Str("Bad Request"), Absent, Null),     \* null is no Vec
      Body(TRUE, TRUE, FALSE, Num, Str("invalid"), Absent),          \* title is no string
      Body(TRUE, TRUE, FALSE, Absent, Str("secret detail"), Absent), \* JSON without title
      Body(TRUE, FALSE, FALSE, Absent, Absent, Absent),              \* not JSON
      Body(FALSE, FALSE, FALSE, Absent, Absent, Absent) }            \* body read fails

Statuses == {200, 201, 301, 404, 409, TooManyRequests, 500}

\* StatusCode::is_success
is_success(status) == status >= 200 /\ status < 300

\* What the transport hands back for one attempt.
NetOk(status, body) ==
    [net |-> "ok", status |-> status, body |-> body, retry_after |-> None]
NetErr(class) == [net |-> class, status |-> 0, body |-> NoBody, retry_after |-> None]

\* The Retry-After header a 429 answer can carry, in seconds.
RetryAfterSeconds == 30

Outcomes ==
    { NetErr("transient"), NetErr("fatal") }
    \cup { NetOk(s, b) : s \in {x \in Statuses : is_success(x)}, b \in SuccessBodies }
    \cup { NetOk(s, b) : s \in {x \in Statuses : ~is_success(x)}, b \in ErrorBodies }
    \cup { [NetOk(TooManyRequests, b) EXCEPT !.retry_after = Some(RetryAfterSeconds)] :
             b \in ErrorBodies }

\* What the history keeps of an attempt.
Class(o) == [net |-> o.net, status |-> o.status]

\* ---------------------------------------------------------------- results
NoResult == [kind |-> "none"]
Ok(v) == [kind |-> "Ok", value |-> v]
Transport(cause) == [kind |-> "Transport", cause |-> cause]
ApiError(status_code, title, detail, validation_errors) ==
    [kind |-> "Api", status_code |-> status_code, title |-> title,
     detail |-> detail, validation_errors |-> validation_errors]

NoResponse == NetErr("none")

\* ------------------------------------------------- config.rs: the builder
\* A URL that can be a base: a host and the segments of its path.
Url(host, path) == [host |-> host, path |-> path, cannot_be_a_base |-> FALSE]

\* A URL that cannot be a base, such as mailto:billing@example.test: it has
\* no host and no path segments.
OpaqueUrl == [host |-> "", path |-> <<>>, cannot_be_a_base |-> TRUE]

\* DEFAULT_ENDPOINT: https://api.billwithorb.com/v1
DEFAULT_ENDPOINT == Url("api.billwithorb.com", <<"v1">>)

\* An endpoint handed to with_endpoint.
CustomEndpoint == Url("orb.example.test", <<>>)

\* Mutant: a default builder that holds no retry policy.
ClientBuilder_default_noPolicy == [endpoint |-> DEFAULT_ENDPOINT, retry_policy |-> None]

\* ClientBuilder::default: the default endpoint, and retry_policy is
\* Some(policy with 5 retries).
ClientBuilder_default ==
    [endpoint |-> DEFAULT_ENDPOINT, retry_policy |-> Some(DefaultMaxRetries)]

\* ClientBuilder::with_retry_policy
with_retry_policy(b, max_retries) == [b EXCEPT !.retry_policy = Some(max_retries)]

\* ClientBuilder::with_endpoint
with_endpoint(b, e) == [b EXCEPT !.endpoint = e]

\* Mutant: the transport keeps reqwest's default redirect policy.
RedirectPolicy_default == "limited"

\* `.redirect(reqwest::redirect::Policy::none())`
RedirectPolicy == "none"

\* ClientBuilder::build: the transport follows no redirect; Some(policy)
\* installs the retry middleware with the policy and the Retry429 strategy;
\* None installs no middleware.
build(b) ==
    IF b.retry_policy.some
    THEN [retrying |-> TRUE, max_n_retries |-> b.retry_policy.val,
          redirect |-> RedirectPolicy]
    ELSE [retrying |-> FALSE, max_n_retries |-> 0, redirect |-> RedirectPolicy]

\* The transport follows a redirect unless its policy is none.
FollowsRedirect(client, o) ==
    /\ client.redirect # "none"
    /\ o.net = "ok"
    /\ o.status >= 300
    /\ o.status < 400

\* Mutant: the strategy retries failed exchanges only, never a status.
Retry429_handle_networkOnly(o) ==
    IF o.net = "transient" THEN "Transient" ELSE "None"

\* Mutant: the strategy also retries server errors, as the library's default
\* strategy does.
Retry429_handle_serverErrors(o) ==
    IF o.net = "ok"
    THEN IF o.status = TooManyRequests \/ o.status >= 500 THEN "Transient" ELSE "None"
    ELSE IF o.net = "transient" THEN "Transient" ELSE "Fatal"

\* Mutant: a 429 that names a Retry-After is left to the caller.
Retry429_handle_honoursRetryAfter(o) ==
    IF o.net = "ok"
    THEN IF o.status = TooManyRequests /\ ~o.retry_after.some THEN "Transient" ELSE "None"
    ELSE IF o.net = "transient" THEN "Transient" ELSE "Fatal"

\* Mutant: no failed exchange is worth a retry.
default_on_request_failure_fatal(o) == "Fatal"

\* Retry429::handle: Some(Transient) for status 429, None for any other
\* response, default_on_request_failure for a failed exchange.
default_on_request_failure(o) ==
    IF o.net = "transient" THEN "Transient" ELSE "Fatal"

Retry429_handle(o) ==
    IF o.net = "ok"
    THEN IF o.status = TooManyRequests THEN "Transient" ELSE "None"
    ELSE default_on_request_failure(o)

\* Mutant: the retry bound is off by one.
should_retry_inclusive(max_n_retries, past) == past <= max_n_retries

\* ExponentialBackoff::should_retry, built with build_with_max_retries(n).
should_retry(max_n_retries, past) == past < max_n_retries

\* The middleware's decision after one attempt: retry a transient outcome
\* while the policy allows it.
WillRetry(client, o, past) ==
    /\ client.retrying
    /\ Retry429_handle(o) = "Transient"
    /\ should_retry(client.max_n_retries, past)

\* ------------------------------------- client.rs: send_request's decoding
\* serde_json::from_str::<ErrorResponse>: title is a required string, detail
\* an optional string (absent or null is None), validation_errors a list
\* that defaults to empty when absent.
ErrorResponseDecodes(b) ==
    /\ b.json
    /\ b.title.t = "str"
    /\ b.detail.t \in {"absent", "null", "str"}
    /\ b.validation_errors.t \in {"absent", "arr"}

ErrorResponse_detail(b) == IF b.detail.t = "str" THEN Some(b.detail.s) ELSE None

ErrorResponse_validation_errors(b) ==
    IF b.validation_errors.t = "arr" THEN b.validation_errors.a ELSE <<>>

\* Mutant: the decoded error loses the validation errors and reports every
\* conflict as a bad request.
DecodedApiError_translated(status_code, b) ==
    ApiError(IF status_code = 409 THEN 400 ELSE status_code, b.title.s,
             ErrorResponse_detail(b), <<>>)

\* Mutant: the fallback error carries what it could read of the raw body.
FallbackApiError_rawBody(status_code, b) ==
    ApiError(status_code, "decoding failure",
             IF b.detail.t = "str" THEN Some(b.detail.s)
             ELSE Some("unable to decode API response as JSON"), <<>>)

\* The two arms of the match on the decoded error body.
DecodedApiError(status_code, b) ==
    ApiError(status_code, b.title.s, ErrorResponse_detail(b),
             ErrorResponse_validation_errors(b))

FallbackApiError(status_code, b) ==
    ApiError(status_code, "decoding failure",
             Some("unable to decode API response as JSON"), <<>>)

\* The non-2xx branch: res.text() may fail (the ? makes it a transport error).
ErrorBranch(status_code, b) ==
    IF ~b.readable THEN Transport("body")
    ELSE IF ErrorResponseDecodes(b) THEN DecodedApiError(status_code, b)
    ELSE FallbackApiError(status_code, b)

\* Mutant: an undecodable 2xx body becomes a default value.
SuccessBranch_defaultValue(b, value) ==
    IF ~b.readable THEN Transport("body")
    ELSE IF ~(b.json /\ b.typed) THEN Ok("default")
    ELSE Ok(value)

\* The 2xx branch: res.json() fails on an unreadable or undecodable body.
SuccessBranch(b, value) ==
    IF ~b.readable THEN Transport("body")
    ELSE IF ~(b.json /\ b.typed) THEN Transport("decode")
    ELSE Ok(value)

\* send_request on the final outcome o of the middleware; value is what a
\* well-typed 2xx body decodes to.
send_request(o, value) ==
    IF o.net # "ok" THEN Transport("network")
    ELSE IF is_success(o.status) THEN SuccessBranch(o.body, value)
    ELSE ErrorBranch(o.status, o.body)

\* ----------------------------------------------- the list endpoint (server)
\* The paginated envelope { data, pagination_metadata: { next_cursor } }.
Paginated(data, nc) == [data |-> data, next_cursor |-> nc]

\* The list holds the items 1..n in server order.  A cursor is the offset of
\* the first item of the page it names.  An "exact" server returns a cursor
\* exactly when items remain after the page; a "trailing" server returns one
\* whenever the page is full, so a list whose length is a multiple of the
\* page size ends with an empty page; a "looping" server returns with every
\* page the cursor of the first page.
ServerPage(n, p, mode, c) ==
    LET off == IF c.some THEN c.val ELSE 0
        cnt == Min(off + p, n) - off
        data == IF cnt <= 0 THEN <<>> ELSE [i \in 1..cnt |-> off + i]
        more == IF mode = "exact" THEN off + p < n
                ELSE IF mode = "trailing" THEN Len(data) = p
                ELSE TRUE
        next == IF mode = "looping" THEN 0 ELSE off + p
    IN  Paginated(data, IF more THEN Some(next) ELSE None)

\* ------------------------- client.rs: stream_paginated_request's generator
\* Mutant: the page is drained from its end.
PageData_reversed(page) ==
    [i \in 1..Len(page.data) |-> page.data[Len(page.data) + 1 - i]]

\* Mutant: the loop over the page stops one item early.
PageData_dropLast(page) == SubSeq(page.data, 1, Len(page.data) - 1)

\* `for datum in res.data { yield datum; }`: the items the page yields.
PageData(page) == page.data

\* Mutant: an absent cursor does not break the loop.
LoopDecision_neverBreaks(nc) == "fetch"

\* `match res.pagination_metadata.next_cursor`: None breaks the loop, Some
\* stores the cursor and loops.
LoopDecision(nc) == IF nc.some THEN "fetch" ELSE "break"

\* ------------------------------------------- client.rs: building a request
\* What stands for the request when building it panicked.
Panic == [method |-> "panic"]

HeaderNames == {"Authorization", "Idempotency-Key"}

\* A RequestBuilder: method, URL, headers, query pairs in order, JSON body.
Request(method, url) ==
    [method |-> method, url |-> url, headers |-> [h \in HeaderNames |-> None],
     query |-> <<>>, body |-> None]

\* RequestBuilder::header
header(req, name, value) ==
    IF req = Panic THEN Panic ELSE [req EXCEPT !.headers[name] = Some(value)]

\* The value bearer_auth puts in the Authorization header.
Bearer(token) == [scheme |-> "Bearer", token |-> token]

\* RequestBuilder::bearer_auth
bearer_auth(req, token) == header(req, "Authorization", Bearer(token))

\* RequestBuilder::query appends one pair.
query(req, k, v) ==
    IF req = Panic THEN Panic ELSE [req EXCEPT !.query = Append(@, <<k, v>>)]

\* RequestBuilder::json
json(req, fields) ==
    IF req = Panic THEN Panic ELSE [req EXCEPT !.body = Some(fields)]

\* Mutant: the request goes to the default endpoint whatever the client holds.
build_request_defaultEndpoint(client, method, path) ==
    bearer_auth(Request(method, Url(DEFAULT_ENDPOINT.host, DEFAULT_ENDPOINT.path \o path)),
                client.api_key)

\* Client::build_request: the endpoint's path extended by the segments of
\* `path`, and the API key as bearer token.  path_segments_mut() is an Err
\* for a URL that cannot be a base, and the expect() on it panics.
build_request(client, method, path) ==
    IF client.endpoint.cannot_be_a_base THEN Panic
    ELSE bearer_auth(Request(method, Url(client.endpoint.host,
                                         client.endpoint.path \o path)),
                     client.api_key)

\* ------------------------------------- serde: the body of a create request
\* A field of a request struct: its name, its name on the wire, and its
\* attribute: "always", "skip_if_none" (skip_serializing_if = Option::is_none)
\* or "skip" (skip_serializing).
Field(name, wire, attr) == [name |-> name, wire |-> wire, attr |-> attr]

CreateCustomerRequest ==
    { Field("external_id", "external_customer_id", "skip_if_none"),
      Field("name", "name", "always"),
      Field("email", "email", "always"),
      Field("timezone", "timezone", "skip_if_none"),
      Field("idempotency_key", "idempotency_key", "skip") }

\* customer_id and plan_id are flattened enums; the members written here are
\* those of their Orb variants.
CreateSubscriptionRequest ==
    { Field("customer_id", "customer_id", "always"),
      Field("plan_id", "plan_id", "always"),
      Field("minimum_amount", "minimum_amount", "skip_if_none"),
      Field("default_invoice_memo", "default_invoice_memo", "skip_if_none"),
      Field("idempotency_key", "idempotency_key", "skip") }

SchedulePlanChangeRequestBody ==
    { Field("plan_id", "plan_id", "always"),
      Field("change_option", "change_option", "always"),
      Field("invoicing_threshold", "invoicing_threshold", "skip_if_none"),
      Field("idempotency_key", "idempotency_key", "skip") }

\* Mutant: a skip_serializing field is serialized like an optional one.
Serialize_keepsSkipped(schema, v) ==
    { <<f.wire, v[f.name]>> : f \in {g \in schema : g.attr = "always"} }
    \cup { <<f.wire, v[f.name].val>> :
             f \in {g \in schema : g.attr # "always" /\ v[g.name].some} }

\* The derived Serialize: the members of the JSON object written for v.
Serialize(schema, v) ==
    { <<f.wire, v[f.name]>> : f \in {g \in schema : g.attr = "always"} }
    \cup { <<f.wire, v[f.name].val>> :
             f \in {g \in schema : g.attr = "skip_if_none" /\ v[g.name].some} }

\* ------------------------------------- customers.rs, subscriptions.rs: operations
CUSTOMERS_PATH == <<"customers">>
SUBSCRIPTIONS_PATH == <<"subscriptions">>

\* `if let Some(key) = ....idempotency_key { req = req.header("Idempotency-Key", key); }`
IdempotencyHeader(req, key) ==
    IF key.some THEN header(req, "Idempotency-Key", key.val) ELSE req

\* Client::get_customer
get_customer(client, id) == build_request(client, "GET", Append(CUSTOMERS_PATH, id))

\* Client::create_customer
create_customer(client, customer) ==
    json(IdempotencyHeader(build_request(client, "POST", CUSTOMERS_PATH),
                           customer.idempotency_key),
         Serialize(CreateCustomerRequest, customer))

\* Client::create_subscription
create_subscription(client, subscription) ==
    json(IdempotencyHeader(build_request(client, "POST", SUBSCRIPTIONS_PATH),
                           subscription.idempotency_key),
         Serialize(CreateSubscriptionRequest, subscription))

\* Client::schedule_plan_change
schedule_plan_change(client, id, body) ==
    json(IdempotencyHeader(
             build_request(client, "POST",
                           SUBSCRIPTIONS_PATH \o <<id, "schedule_plan_change">>),
             body.idempotency_key),
         Serialize(SchedulePlanChangeRequestBody, body))

\* Client::list_customers: the request handed to stream_paginated_request.
list_customers(client) == build_request(client, "GET", CUSTOMERS_PATH)

\* Client::list_subscriptions: the filter of the parameters, if any, is a
\* query pair of the request handed to stream_paginated_request.
list_subscriptions(client, filter) ==
    IF filter.some
    THEN query(build_request(client, "GET", SUBSCRIPTIONS_PATH), "customer_id", filter.val)
    ELSE build_request(client, "GET", SUBSCRIPTIONS_PATH)

EVENTS_PATH == <<"events">>

\* Client::search_events: a POST whose JSON body is the filter.
search_events(client, filter) ==
    json(build_request(client, "POST", Append(EVENTS_PATH, "search")), filter)

\* The request an operation hands to send_request or to
\* stream_paginated_request.
OperationRequest(client, c) ==
    CASE c.name = "get_customer" -> get_customer(client, c.id)
      [] c.name = "create_customer" -> create_customer(client, c.args)
      [] c.name = "create_subscription" -> create_subscription(client, c.args)
      [] c.name = "schedule_plan_change" -> schedule_plan_change(client, c.id, c.args)
      [] c.name = "list_customers" -> list_customers(client)
      [] c.name = "list_subscriptions" -> list_subscriptions(client, c.args.filter)
      [] c.name = "search_events" -> search_events(client, c.args.filter)

\* `req.query(&[("limit", params.page_size)])`, once, before the loop.
PaginatedBase(req, params_page_size) == query(req, "limit", params_page_size)

\* Mutant: every request of the loop carries a cursor parameter.
PageRequest_cursorAlways(base, c) == query(base, "cursor", IF c.some THEN c.val ELSE 0)

\* `req.try_clone()` and `req.query(&[("cursor", cursor)])` for Some(cursor).
PageRequest(base, c) == IF c.some THEN query(base, "cursor", c.val) ELSE base

\* The request the transport sends when it follows a redirect: the same
\* request to the host the Location names, without the sensitive headers.
Redirected(req) ==
    [req EXCEPT !.url.host = "redirect.example.test",
                !.headers["Authorization"] = None]

\* ----------------------------------------------------- diagnostic output
JsonStrings(j) ==
    CASE j.t = "str" -> {j.s}
      [] j.t = "arr" -> {j.a[i] : i \in 1..Len(j.a)}
      [] OTHER -> {}

\* The strings a response body holds.
BodyStrings(b) ==
    JsonStrings(b.title) \cup JsonStrings(b.detail) \cup JsonStrings(b.validation_errors)

\* `eprintln!("There's been an API error! {e:?} from {res_body:?}")` in the
\* arm of send_request where the error body does not decode: the decode
\* error and the body text.
FailureLog(o) ==
    IF o.net = "ok" /\ ~is_success(o.status) /\ o.body.readable
       /\ ~ErrorResponseDecodes(o.body)
    THEN {"There's been an API error!"} \cup BodyStrings(o.body)
    ELSE {}

\* `#[derive(Debug)]` on Client: the rendering names every field and prints
\* its value.
Debug_Client(client) ==
    {"Client", "inner", "api_key", client.api_key, "endpoint", client.endpoint.host}

\* The strings an error value holds.
ResultStrings(r) ==
    CASE r.kind = "Api" ->
           {r.title} \cup (IF r.detail.some THEN {r.detail.val} ELSE {})
           \cup {r.validation_errors[i] : i \in 1..Len(r.validation_errors)}
      [] r.kind = "Transport" -> {r.cause}
      [] OTHER -> {}

\* --------------------------------------------- enumerated-string types
\* Strings are sequences of characters here, so that a renaming rule does
\* what it does to a name.
UpperCase ==
    <<"A", "B", "C", "D", "E", "F", "G", "H", "I", "J", "K", "L", "M",
      "N", "O", "P", "Q", "R", "S", "T", "U", "V", "W", "X", "Y", "Z">>

LowerCase ==
    <<"a", "b", "c", "d", "e", "f", "g", "h", "i", "j", "k", "l", "m",
      "n", "o", "p", "q", "r", "s", "t", "u", "v", "w", "x", "y", "z">>

is_uppercase(ch) == \E i \in 1..Len(UpperCase) : UpperCase[i] = ch

to_ascii_lowercase(ch) ==
    IF is_uppercase(ch)
    THEN LowerCase[CHOOSE i \in 1..Len(UpperCase) : UpperCase[i] = ch]
    ELSE ch

RECURSIVE SnakeFrom(_, _)
\* rename_all = "snake_case" from character i on: an underscore before every
\* uppercase character but the first, and every character in lowercase.
SnakeFrom(name, i) ==
    IF i > Len(name) THEN <<>>
    ELSE (IF i > 1 /\ is_uppercase(name[i]) THEN <<"_">> ELSE <<>>)
         \o <<to_ascii_lowercase(name[i])>> \o SnakeFrom(name, i + 1)

snake_case(name) == SnakeFrom(name, 1)

\* A unit variant: its name and its #[serde(rename = ...)], if any.
Variant(name, rename) == [name |-> name, rename |-> rename]

\* PaymentProvider: explicit renames and a fallback.
PaymentProvider ==
    [name |-> "PaymentProvider",
     variants |->
     { Variant(<<"Q", "u", "i", "c", "k", "b", "o", "o", "k", "s">>, Some(<<"q", "u", "i", "c", "k", "b", "o", "o", "k", "s">>)),
       Variant(<<"B", "i", "l", "l", "D", "o", "t", "C", "o", "m">>, Some(<<"b", "i", "l", "l", ".", "c", "o", "m">>)),
       Variant(<<"S", "t", "r", "i", "p", "e">>, Some(<<"s", "t", "r", "i", "p", "e">>)),
       Variant(<<"S", "t", "r", "i", "p", "e", "C", "h", "a", "r", "g", "e">>, Some(<<"s", "t", "r", "i", "p", "e", "_", "c", "h", "a", "r", "g", "e">>)),
       Variant(<<"S", "t", "r", "i", "p", "e", "I", "n", "v", "o", "i", "c", "e">>, Some(<<"s", "t", "r", "i", "p", "e", "_", "i", "n", "v", "o", "i", "c", "e">>)) },
     rename_all |-> "none", other |-> TRUE, ser |-> "enum_str", de |-> "enum_str"]

\* SubscriptionStatus: snake_case and a fallback.
SubscriptionStatus ==
    [name |-> "SubscriptionStatus",
     variants |->
     { Variant(<<"A", "c", "t", "i", "v", "e">>, None),
       Variant(<<"E", "n", "d", "e", "d">>, None),
       Variant(<<"U", "p", "c", "o", "m", "i", "n", "g">>, None) },
     rename_all |-> "snake_case", other |-> TRUE, ser |-> "enum_str", de |-> "enum_str"]

\* TaxIdType: snake_case and a fallback.
TaxIdType ==
    [name |-> "TaxIdType",
     variants |->
     { Variant(<<"A", "e", "T", "r", "n">>, None),
       Variant(<<"A", "u", "A", "b", "n">>, None),
       Variant(<<"A", "u", "A", "r", "n">>, None),
       Variant(<<"B", "g", "U", "i", "c">>, None),
       Variant(<<"B", "r", "C", "n", "p", "j">>, None),
       Variant(<<"B", "r", "C", "p", "f">>, None),
       Variant(<<"C", "a", "B", "n">>, None),
       Variant(<<"C", "a", "G", "s", "t", "H", "s", "t">>, None),
       Variant(<<"C", "a", "P", "s", "t", "B", "c">>, None),
       Variant(<<"C", "a", "P", "s", "t", "M", "b">>, None),
       Variant(<<"C", "a", "P", "s", "t", "S", "k">>, None),
       Variant(<<"C", "a", "Q", "s", "t">>, None),
       Variant(<<"C", "h", "V", "a", "t">>, None),
       Variant(<<"C", "l", "T", "i", "n">>, None),
       Variant(<<"E", "s", "C", "i", "f">>, None),
       Variant(<<"E", "u", "O", "s", "s", "V", "a", "t">>, None),
       Variant(<<"E", "u", "V", "a", "t">>, None),
       Variant(<<"G", "b", "V", "a", "t">>, None),
       Variant(<<"G", "e", "V", "a", "t">>, None),
       Variant(<<"H", "k", "B", "r">>, None),
       Variant(<<"H", "u", "T", "i", "n">>, None),
       Variant(<<"I", "d", "N", "p", "w", "p">>, None),
       Variant(<<"I", "l", "V", "a", "t">>, None),
       Variant(<<"I", "n", "G", "s", "t">>, None),
       Variant(<<"I", "s", "V", "a", "t">>, None),
       Variant(<<"J", "p", "C", "n">>, None),
       Variant(<<"J", "p", "R", "n">>, None),
       Variant(<<"J", "p", "T", "r", "n">>, None),
       Variant(<<"K", "r", "B", "r", "n">>, None),
       Variant(<<"L", "i", "U", "i", "d">>, None),
       Variant(<<"M", "x", "R", "f", "c">>, None),
       Variant(<<"M", "y", "F", "r", "p">>, None),
       Variant(<<"M", "y", "I", "t", "n">>, None),
       Variant(<<"M", "y", "S", "s", "t">>, None),
       Variant(<<"N", "o", "V", "a", "t">>, None),
       Variant(<<"N", "z", "G", "s", "t">>, None),
       Variant(<<"R", "u", "I", "n", "n">>, None),
       Variant(<<"R", "u", "K", "p", "p">>, None),
       Variant(<<"S", "a", "V", "a", "t">>, None),
       Variant(<<"S", "g", "G", "s", "t">>, None),
       Variant(<<"S", "g", "U", "e", "n">>, None),
       Variant(<<"S", "i", "T", "i", "n">>, None),
       Variant(<<"T", "h", "V", "a", "t">>, None),
       Variant(<<"T", "w", "V", "a", "t">>, None),
       Variant(<<"U", "a", "V", "a", "t">>, None),
       Variant(<<"U", "s", "E", "i", "n">>, None),
       Variant(<<"Z", "a", "V", "a", "t">>, None) },
     rename_all |-> "snake_case", other |-> TRUE, ser |-> "enum_str", de |-> "enum_str"]

\* BackfillStatus: snake_case, no #[serde(other)] variant.
BackfillStatus ==
    [name |-> "BackfillStatus",
     variants |->
     { Variant(<<"P", "e", "n", "d", "i", "n", "g">>, None),
       Variant(<<"R", "e", "f", "l", "e", "c", "t", "e", "d">>, None),
       Variant(<<"P", "e", "n", "d", "i", "n", "g", "R", "e", "v", "e", "r", "t">>, None),
       Variant(<<"R", "e", "v", "e", "r", "t", "e", "d">>, None) },
     rename_all |-> "snake_case", other |-> FALSE, ser |-> "enum_str", de |-> "enum_str"]

\* EntryStatus: explicit renames, no #[serde(other)] variant.
EntryStatus ==
    [name |-> "EntryStatus",
     variants |->
     { Variant(<<"C", "o", "m", "m", "i", "t", "t", "e", "d">>, Some(<<"c", "o", "m", "m", "i", "t", "t", "e", "d">>)),
       Variant(<<"P", "e", "n", "d", "i", "n", "g">>, Some(<<"p", "e", "n", "d", "i", "n", "g">>)) },
     rename_all |-> "none", other |-> FALSE, ser |-> "serde", de |-> "enum_str"]

\* VoidReason: one variant, no #[serde(other)] variant.
VoidReason ==
    [name |-> "VoidReason",
     variants |->
     { Variant(<<"R", "e", "f", "u", "n", "d">>, Some(<<"r", "e", "f", "u", "n", "d">>)) },
     rename_all |-> "none", other |-> FALSE, ser |-> "enum_str", de |-> "enum_str"]

EnumTypes ==
    {PaymentProvider, SubscriptionStatus, TaxIdType, BackfillStatus, EntryStatus, VoidReason}

\* The string a unit variant has on the wire.
WireName(ty, v) ==
    IF v.rename.some THEN v.rename.val
    ELSE IF ty.rename_all = "snake_case" THEN snake_case(v.name)
    ELSE v.name

KnownWire(ty) == {WireName(ty, v) : v \in ty.variants}

\* What is converted: a string on the wire, a unit variant, the fallback
\* variant with its string, a decoding error.
Wire(str) == [k |-> "wire", s |-> str]
Known(name) == [k |-> "known", name |-> name]
Other(str) == [k |-> "other", s |-> str]
DecodeError == [k |-> "err"]

\* Serialize: the wire name of a unit variant, the string of Other.
Serialize_enum_str(ty, x) ==
    IF x.k = "other" THEN Wire(x.s)
    ELSE Wire(WireName(ty, CHOOSE v \in ty.variants : v.name = x.name))

\* Mutant: an unknown string is an error for every type.
Deserialize_enum_str_strict(ty, w) ==
    IF w.s \in KnownWire(ty)
    THEN Known((CHOOSE v \in ty.variants : WireName(ty, v) = w.s).name)
    ELSE DecodeError

\* Deserialize_enum_str: the unit variant with that wire name; without one,
\* the #[serde(other)] variant holding the string, and an error for a type
\* that has no such variant.
Deserialize_enum_str(ty, w) ==
    IF w.s \in KnownWire(ty)
    THEN Known((CHOOSE v \in ty.variants : WireName(ty, v) = w.s).name)
    ELSE IF ty.other THEN Other(w.s)
    ELSE DecodeError

\* Strings no type knows: a value added upstream, a known value in another
\* case, the empty string.
UnknownStrings ==
    { <<"a", "r", "c", "h", "i", "v", "e", "d">>,
      <<"A", "c", "t", "i", "v", "e">>,
      <<"s", "t", "r", "i", "p", "e", "_">>,
      <<>> }

\* The values of a type: its unit variants and, with a fallback, Other(s).
EnumValues(ty) ==
    {Known(v.name) : v \in ty.variants}
    \cup (IF ty.other THEN {Other(u) : u \in UnknownStrings} ELSE {})

\* ------------------------------------------------------------------ state
VARIABLES
    totalAttempts,  \* attempts sent since the operation began, counted in
                    \* the specification of list operations only
    par,            \* the operations running side by side on the client
    enumTy,         \* the enumerated-string type being converted, if any
    enumTrace,      \* the input and the results of the conversions made of it
    via,            \* how the client was built: "new", "builder", "with_retry_policy"
    builder,        \* the ClientBuilder handed to build
    inner,          \* Client.inner: the transport with or without retry middleware
    api_key,        \* Client.api_key
    endpoint,       \* Client.endpoint
    call,           \* the operation called and its arguments
    op,             \* "request": one send_request; "stream": a paginated stream
    srvN,           \* number of items the list endpoint holds
    page_size,      \* ListParams::page_size
    srvMode,        \* "exact", "trailing" or "looping"
    srvShapes,      \* the shape of each record of the list: "normal", "deleted"
                    \* ({id, deleted: true}), "undeleted" ({id, deleted: false})
    pc,             \* the logical request: "idle", "inflight", "backoff", "done";
                    \* "panicked" when the operation panicked
    n_past_retries, \* the middleware's retry counter
    attempts,       \* attempts sent for the current logical request
    history,        \* outcome classes of the current logical request's attempts
    response,       \* the outcome send_request got from the middleware
    result,         \* what send_request returned
    wire,           \* the HTTP request of the attempt last sent
    diag,           \* strings written to diagnostic output so far
    cursor,         \* the generator's cursor
    buffer,         \* items of the current page not yet yielded
    next_cursor,    \* next_cursor of the current page
    gen,            \* generator: "start", "await", "yield", "ended", "failed"
    consumer,       \* "idle", "polling", "stopped", "dropped"
    yielded,        \* items stream_paginated_request yielded, in order
    listed,         \* what the stream of the list operation returned to its
                    \* consumer, in order
    lastPoll,       \* what the last poll returned: "none", "item", "end", "err"
    streamErr,      \* the error item the stream yielded, if any
    pageRequests    \* page requests (send_request calls) of the stream

confVars == <<via, builder, inner, api_key, endpoint, call, op, srvN, page_size, srvMode,
              srvShapes>>
sendVars == <<pc, n_past_retries, attempts, history, response, result, wire>>
streamVars == <<cursor, buffer, next_cursor, gen, consumer, yielded, listed, lastPoll,
                streamErr, pageRequests>>
enumVars == <<enumTy, enumTrace>>
\* What the actions of the client leave alone.
otherVars == <<totalAttempts, enumVars, par>>
vars == <<confVars, sendVars, streamVars, diag, otherVars>>

\* API keys a ClientConfig can hold.
ApiKeys == {"sk_live_A", "sk_live_B"}

\* The clients built: Client::new with either key, a builder with another
\* endpoint (one that can be a base, one that cannot), and a builder with a
\* retry policy of its own.
Builders ==
    { [via |-> "new", b |-> ClientBuilder_default, key |-> k] : k \in ApiKeys }
    \cup { [via |-> "builder", b |-> with_endpoint(ClientBuilder_default, e),
            key |-> "sk_live_B"] : e \in {CustomEndpoint, OpaqueUrl} }
    \cup { [via |-> "with_retry_policy", b |-> with_retry_policy(ClientBuilder_default, m),
            key |-> "sk_live_A"] : m \in 0..MaxRetriesBound }

\* Idempotency keys a create request can hold.
IdempotencyKeys == {None, Some("idem-1")}

NoArgs == [idempotency_key |-> None]

CustomerArgs(k) ==
    [external_id |-> Some("ext-1"), name |-> "Ada", email |-> "ada@example.test",
     timezone |-> None, idempotency_key |-> k]

SubscriptionArgs(k) ==
    [customer_id |-> "cus_1", plan_id |-> "plan_1", minimum_amount |-> None,
     default_invoice_memo |-> Some("memo"), idempotency_key |-> k]

PlanChangeArgs(k) ==
    [plan_id |-> "plan_2", change_option |-> "immediate",
     invoicing_threshold |-> None, idempotency_key |-> k]

OpCall(name, id, args) == [name |-> name, id |-> id, args |-> args]

\* The single-response operations and the arguments they are called with.
RequestCalls ==
    { OpCall("get_customer", "cus_1", NoArgs) }
    \cup { OpCall("create_customer", "", CustomerArgs(k)) : k \in IdempotencyKeys }
    \cup { OpCall("create_subscription", "", SubscriptionArgs(k)) : k \in IdempotencyKeys }
    \cup { OpCall("schedule_plan_change", "sub_1", PlanChangeArgs(k)) : k \in IdempotencyKeys }

\* The client as build_request reads it.
Self == [api_key |-> api_key, endpoint |-> endpoint]

NoWire == [method |-> "none"]

\* The client ClientBuilder::build returns for builder c.b and key c.key.
Built(c) ==
    /\ via = c.via
    /\ builder = c.b
    /\ inner = build(c.b)
    /\ endpoint = c.b.endpoint
    /\ api_key = c.key

\* No operation has begun.
AtRest ==
    /\ wire = NoWire
    /\ diag = {}
    /\ listed = <<>>
    /\ totalAttempts = 0
    /\ pc = "idle"
    /\ n_past_retries = 0
    /\ attempts = 0
    /\ history = <<>>
    /\ response = NoResponse
    /\ result = NoResult
    /\ cursor = None
    /\ buffer = <<>>
    /\ next_cursor = None
    /\ gen = "start"
    /\ consumer = "idle"
    /\ yielded = <<>>
    /\ lastPoll = "none"
    /\ streamErr = NoResult
    /\ pageRequests = 0

\* No enumerated string is being converted.
NoConversion == enumTy = "none" /\ enumTrace = <<>>

\* The client is used by one operation at a time.
OneAtATime == par = <<>>

\* A list whose n records all have the normal shape.
AllNormal(n) == [i \in 1..n |-> "normal"]

\* One operation on one client: a single-response operation, or a list of
\* normal records read through list_customers.
Init ==
    /\ \E c \in Builders : Built(c)
    /\ op \in {"request", "stream"}
    /\ \/ op = "request" /\ srvN = 0 /\ page_size = 1 /\ srvMode = "exact"
            /\ call \in RequestCalls
       \/ op = "stream" /\ srvN \in 0..MaxN /\ page_size \in 1..MaxPageSize
            /\ srvMode \in {"exact", "trailing"}
            /\ call = OpCall("list_customers", "", NoArgs)
    /\ srvShapes = AllNormal(srvN)
    /\ AtRest
    /\ NoConversion
    /\ OneAtATime

\* req.send(): the middleware sends the first attempt of a logical request.
\* When building the request panicked, the operation unwinds and nothing
\* is sent.
\* Mutant: the retry count of the request before is carried over.
SendStart_keepsCount(req) ==
    IF req = Panic
    THEN /\ pc' = "panicked"
         /\ UNCHANGED <<wire, n_past_retries, attempts, history, response, result>>
    ELSE /\ wire' = req
         /\ pc' = "inflight"
         /\ n_past_retries' = n_past_retries
         /\ attempts' = 1
         /\ history' = <<>>
         /\ response' = NoResponse
         /\ result' = NoResult

\* send_request hands a request to the middleware stack, which starts a
\* retry loop of its own for it.
SendStart(req) ==
    IF req = Panic
    THEN /\ pc' = "panicked"
         /\ UNCHANGED <<wire, n_past_retries, attempts, history, response, result>>
    ELSE /\ wire' = req
         /\ pc' = "inflight"
         /\ n_past_retries' = 0
         /\ attempts' = 1
         /\ history' = <<>>
         /\ response' = NoResponse
         /\ result' = NoResult

\* Mutant: the loop head attaches the cursor of the previous request, not
\* the one just read.
FetchPage_staleCursor(c) ==
    /\ cursor' = cursor
    /\ pageRequests' = pageRequests + 1
    /\ gen' = "await"
    /\ consumer' = "polling"
    /\ SendStart(PageRequest(PaginatedBase(OperationRequest(Self, call), page_size), cursor))

\* One pass of the loop head: clone the request, attach the cursor, send;
\* the consumer's poll is pending until the page is there.  The list
\* operation builds the base request before there is a stream, so a panic
\* of build_request leaves no stream behind.
FetchPage(c) ==
    /\ SendStart(PageRequest(PaginatedBase(OperationRequest(Self, call), page_size), c))
    /\ IF OperationRequest(Self, call) = Panic
       THEN UNCHANGED <<cursor, pageRequests, gen, consumer>>
       ELSE /\ cursor' = c
            /\ pageRequests' = pageRequests + 1
            /\ gen' = "await"
            /\ consumer' = "polling"

\* list_customers and list_subscriptions wrap the stream in try_filter_map.
Filtered == call.name \in {"list_customers", "list_subscriptions"}

\* Error::UnexpectedResponse { detail }, as the closure builds it.
UnexpectedResponse(id) == [kind |-> "UnexpectedResponse", id |-> id]

\* Mutant: a tombstone with deleted = true is returned like a record.
FilterMap_keepsTombstones(i) ==
    IF ~Filtered \/ srvShapes[i] # "undeleted" THEN Some(Ok(i))
    ELSE Some(UnexpectedResponse(i))

\* The closure of try_filter_map on record i: a normal record is returned,
\* a tombstone with deleted = true is left out, a tombstone with
\* deleted = false is an error.
FilterMap(i) ==
    IF ~Filtered \/ srvShapes[i] = "normal" THEN Some(Ok(i))
    ELSE IF srvShapes[i] = "deleted" THEN None
    ELSE Some(UnexpectedResponse(i))

RECURSIVE SkipCount(_)
\* The number of leading items that try_filter_map leaves out: it polls the
\* inner stream again without returning to the consumer.
SkipCount(items) ==
    IF items = <<>> \/ FilterMap(Head(items)).some THEN 0
    ELSE 1 + SkipCount(Tail(items))

\* The items from the first one that the consumer gets to see.
Visible(items) == SubSeq(items, SkipCount(items) + 1, Len(items))

\* `yield datum`, for the items left out and for the first one that is not:
\* the consumer's poll returns that item, or the error made of it.
Yield(items, nc) ==
    LET k == SkipCount(items)
        out == FilterMap(items[k + 1]).val
    IN  /\ yielded' = yielded \o SubSeq(items, 1, k + 1)
        /\ buffer' = SubSeq(items, k + 2, Len(items))
        /\ listed' = Append(listed, out)
        /\ next_cursor' = nc
        /\ gen' = "yield"
        /\ consumer' = "idle"
        /\ lastPoll' = IF out.kind = "Ok" THEN "item" ELSE "err"

\* The loop breaks: the stream ends and the poll returns None.
EndStream ==
    /\ gen' = "ended"
    /\ consumer' = "idle"
    /\ lastPoll' = "end"
    /\ listed' = listed

\* Mutant: the loop goes on after an error.
GenAfterError_continues == "yield"

\* `send_request(current_req).await?`: the error is yielded and the
\* generator returns, so the stream is finished.
GenAfterError == "failed"

\* Mutant: the page requests run in a task of their own.
Driven_detached == TRUE

\* The stream is a lazy generator: its request future makes progress only
\* while the consumer is polling it.  A single-response operation is awaited
\* by its caller.
Driven == op = "request" \/ consumer = "polling"

\* ----------------------------------------------------------------- actions
\* A single-response operation (get_customer, create_customer, ...) calls
\* send_request once.
Call ==
    /\ op = "request"
    /\ pc = "idle"
    /\ SendStart(OperationRequest(Self, call))
    /\ UNCHANGED <<confVars, streamVars, diag, otherVars>>

\* The consumer polls the stream; the generator runs to its next suspension:
\* the first send, the next `yield`, the end of the loop, or the next send.
PollCore ==
    /\ op = "stream"
    /\ consumer = "idle"
    /\ pc # "panicked"
    /\ \/ /\ gen = "start"
          /\ FetchPage(None)
          /\ UNCHANGED <<buffer, next_cursor, yielded, listed, lastPoll, streamErr>>
       \/ /\ gen = "yield"
          /\ Visible(buffer) # <<>>
          /\ Yield(buffer, next_cursor)
          /\ UNCHANGED <<cursor, pageRequests, streamErr, sendVars>>
       \/ \* what is left of the page is left out, and the loop breaks
          /\ gen = "yield"
          /\ Visible(buffer) = <<>>
          /\ LoopDecision(next_cursor) = "break"
          /\ EndStream
          /\ yielded' = yielded \o buffer
          /\ buffer' = <<>>
          /\ UNCHANGED <<cursor, next_cursor, streamErr, pageRequests, sendVars>>
       \/ \* what is left of the page is left out, and the loop goes on
          /\ gen = "yield"
          /\ Visible(buffer) = <<>>
          /\ LoopDecision(next_cursor) = "fetch"
          /\ FetchPage(next_cursor)
          /\ yielded' = yielded \o buffer
          /\ buffer' = <<>>
          /\ UNCHANGED <<next_cursor, listed, lastPoll, streamErr>>
       \/ \* a finished stream returns None to every further poll
          /\ gen \in {"ended", "failed"}
          /\ lastPoll' = "end"
          /\ UNCHANGED <<cursor, buffer, next_cursor, gen, consumer, yielded, listed,
                         streamErr, pageRequests, sendVars>>
    /\ UNCHANGED <<confVars, diag>>

Poll == PollCore /\ UNCHANGED otherVars

\* The generator after send_request returned r for a page.
PageArrives(o, r) ==
    IF r.kind # "Ok"
    THEN \* the ? operator: the stream yields the error and terminates
         /\ pc' = "done"
         /\ history' = Append(history, Class(o))
         /\ response' = o
         /\ result' = r
         /\ streamErr' = r
         /\ listed' = Append(listed, r)
         /\ gen' = GenAfterError
         /\ consumer' = "idle"
         /\ lastPoll' = "err"
         /\ UNCHANGED <<n_past_retries, attempts, wire, cursor, buffer, next_cursor,
                        yielded, pageRequests>>
    ELSE IF Visible(PageData(r.value)) # <<>>
    THEN /\ pc' = "done"
         /\ history' = Append(history, Class(o))
         /\ response' = o
         /\ result' = r
         /\ Yield(PageData(r.value), r.value.next_cursor)
         /\ UNCHANGED <<n_past_retries, attempts, wire, cursor, streamErr, pageRequests>>
    ELSE IF LoopDecision(r.value.next_cursor) = "break"
    THEN /\ pc' = "done"
         /\ history' = Append(history, Class(o))
         /\ response' = o
         /\ result' = r
         /\ EndStream
         /\ yielded' = yielded \o PageData(r.value)
         /\ UNCHANGED <<n_past_retries, attempts, wire, cursor, buffer, next_cursor,
                        streamErr, pageRequests>>
    ELSE \* a page with a cursor and nothing to return: the loop sends the
         \* next request
         /\ FetchPage(r.value.next_cursor)
         /\ yielded' = yielded \o PageData(r.value)
         /\ UNCHANGED <<buffer, next_cursor, listed, lastPoll, streamErr>>

\* The transport completes the attempt in flight with outcome o.  The
\* middleware retries it or hands it to send_request, which decodes it and
\* returns to its caller.
AttemptReturnsCore ==
    /\ pc = "inflight"
    /\ Driven
    /\ \E o \in Outcomes :
         IF FollowsRedirect(inner, o)
         THEN \* the transport sends the request on to the Location it was given
              /\ wire' = Redirected(wire)
              /\ UNCHANGED <<pc, n_past_retries, attempts, history, response, result,
                             streamVars, diag>>
         ELSE IF WillRetry(inner, o, n_past_retries)
         THEN /\ pc' = "backoff"
              /\ n_past_retries' = n_past_retries + 1
              /\ history' = Append(history, Class(o))
              /\ UNCHANGED <<attempts, response, result, wire, streamVars, diag>>
         ELSE IF op = "request"
         THEN /\ pc' = "done"
              /\ history' = Append(history, Class(o))
              /\ response' = o
              /\ result' = send_request(o, "value")
              /\ diag' = diag \cup FailureLog(o)
              /\ UNCHANGED <<n_past_retries, attempts, wire, streamVars>>
         ELSE /\ PageArrives(o, send_request(o, ServerPage(srvN, page_size, srvMode, cursor)))
              /\ diag' = diag \cup FailureLog(o)
    /\ UNCHANGED confVars

AttemptReturns == AttemptReturnsCore /\ UNCHANGED otherVars

\* The backoff delay elapsed: the middleware sends the next attempt.
RetryAfterBackoffCore ==
    /\ pc = "backoff"
    /\ Driven
    /\ pc' = "inflight"
    /\ attempts' = attempts + 1
    /\ wire' = wire
    /\ UNCHANGED <<n_past_retries, history, response, result, confVars, streamVars,
                   diag>>

RetryAfterBackoff == RetryAfterBackoffCore /\ UNCHANGED otherVars

\* The consumer stops polling after the items it has received so far.
Stop ==
    /\ op = "stream"
    /\ pc # "panicked"
    /\ consumer = "idle"
    /\ gen \in {"start", "yield"}
    /\ consumer' = "stopped"
    /\ UNCHANGED <<confVars, sendVars, cursor, buffer, next_cursor, gen, yielded,
                   listed, lastPoll, streamErr, pageRequests, diag, otherVars>>

\* The consumer drops the stream before its end, between polls or while a
\* poll is pending; the generator and the request future it awaits are
\* destroyed with it.
Drop ==
    /\ op = "stream"
    /\ pc # "panicked"
    /\ consumer \in {"idle", "polling"}
    /\ gen \in {"start", "await", "yield"}
    /\ consumer' = "dropped"
    /\ UNCHANGED <<confVars, sendVars, cursor, buffer, next_cursor, gen, yielded,
                   listed, lastPoll, streamErr, pageRequests, diag, otherVars>>

\* The caller of a single-response operation renders the client with {:?}
\* into its diagnostic output once the operation has returned.
FormatDebug ==
    /\ op = "request"
    /\ pc = "done"
    /\ "Client" \notin diag
    /\ diag' = diag \cup Debug_Client(Self)
    /\ UNCHANGED <<confVars, sendVars, streamVars, otherVars>>

Next ==
    Call \/ Poll \/ AttemptReturns \/ RetryAfterBackoff \/ Stop \/ Drop \/ FormatDebug

Spec == Init /\ [][Next]_vars

\* ------------------------------------------- conversions of enumerated strings
\* The type of enumTy.
Ty == CHOOSE ty \in EnumTypes : ty.name = enumTy

Last(s) == s[Len(s)]

\* A value of an enumerated-string type is to be written, or a string of a
\* response is to be read; the client itself is at rest.
InitEnum ==
    /\ \E ty \in EnumTypes :
         /\ enumTy = ty.name
         /\ \E x \in EnumValues(ty)
                     \cup {Wire(w) : w \in KnownWire(ty) \cup UnknownStrings} :
              enumTrace = <<x>>
    /\ Built([via |-> "new", b |-> ClientBuilder_default, key |-> "sk_live_A"])
    /\ op = "request"
    /\ srvN = 0
    /\ page_size = 1
    /\ srvMode = "exact"
    /\ srvShapes = AllNormal(0)
    /\ call = OpCall("get_customer", "cus_1", NoArgs)
    /\ AtRest
    /\ OneAtATime

\* serde writes the value last obtained.
SerializeEnum ==
    /\ Len(enumTrace) <= MaxConversions
    /\ Last(enumTrace).k \in {"known", "other"}
    /\ enumTrace' = Append(enumTrace, Serialize_enum_str(Ty, Last(enumTrace)))
    /\ UNCHANGED <<enumTy, totalAttempts, par, confVars, sendVars, streamVars, diag>>

\* serde reads the string last obtained.
DeserializeEnum ==
    /\ Len(enumTrace) <= MaxConversions
    /\ Last(enumTrace).k = "wire"
    /\ enumTrace' = Append(enumTrace, Deserialize_enum_str(Ty, Last(enumTrace)))
    /\ UNCHANGED <<enumTy, totalAttempts, par, confVars, sendVars, streamVars, diag>>

\* -------------------------------------------------------- the list operations
\* The three shapes of a record of a list response: a normal record, a
\* tombstone {id, deleted: true}, a tombstone {id, deleted: false}.
Shapes == {"normal", "deleted", "undeleted"}

ListArgs(f) == [idempotency_key |-> None, filter |-> f]

\* The paginated operations: list_customers, list_subscriptions filtered by
\* a customer, search_events with a filter as its body.
ListCalls ==
    {OpCall("list_customers", "", NoArgs),
     OpCall("list_subscriptions", "", ListArgs(Some("cus_1"))),
     OpCall("search_events", "", ListArgs({<<"event_ids", "evt_1">>}))}

\* One paginated operation on one client, against a list whose records have
\* any of the three shapes.
InitList ==
    /\ Built([via |-> "builder", b |-> with_retry_policy(ClientBuilder_default, 1),
              key |-> "sk_live_A"])
    /\ op = "stream"
    /\ call \in ListCalls
    /\ srvN \in 0..MaxListN
    /\ page_size \in 1..MaxPageSize
    /\ srvMode = "exact"
    /\ srvShapes \in IF call.name = "search_events" THEN {AllNormal(srvN)}
                     ELSE [1..srvN -> Shapes]
    /\ AtRest
    /\ NoConversion
    /\ OneAtATime

\* The step sent one attempt to the server.
Sends == attempts' # attempts \/ pageRequests' # pageRequests

\* Every attempt of the stream is counted.
Tally ==
    /\ totalAttempts' = totalAttempts + (IF Sends THEN 1 ELSE 0)
    /\ UNCHANGED <<enumVars, par>>

ListPoll == PollCore /\ Tally
ListAttemptReturns == AttemptReturnsCore /\ Tally
ListRetryAfterBackoff == RetryAfterBackoffCore /\ Tally

NextList == ListPoll \/ ListAttemptReturns \/ ListRetryAfterBackoff \/ Stop \/ Drop

SpecList == InitList /\ [][NextList]_vars

\* ------------------------------------------------- a consumer that keeps polling
\* One list operation whose consumer polls until the stream has ended,
\* against a server that ends the list or never does.
InitLive ==
    /\ Built([via |-> "builder", b |-> with_retry_policy(ClientBuilder_default, 1),
              key |-> "sk_live_A"])
    /\ op = "stream"
    /\ call = OpCall("list_customers", "", NoArgs)
    /\ srvN \in 0..MaxLiveN
    /\ page_size \in 1..MaxPageSize
    /\ srvMode \in {"exact", "trailing", "looping"}
    /\ srvShapes = AllNormal(srvN)
    /\ AtRest
    /\ NoConversion
    /\ OneAtATime

\* The run is followed for MaxPages page requests.
WithinPages == pageRequests' <= MaxPages

LivePoll == Poll /\ WithinPages
LiveAttemptReturns == AttemptReturns /\ WithinPages
LiveRetryAfterBackoff == RetryAfterBackoff

NextLive == LivePoll \/ LiveAttemptReturns \/ LiveRetryAfterBackoff

\* The consumer keeps polling, every attempt completes, every backoff delay
\* elapses.
Fairness ==
    /\ WF_vars(LivePoll)
    /\ WF_vars(LiveAttemptReturns)
    /\ WF_vars(LiveRetryAfterBackoff)

SpecLive == InitLive /\ [][NextLive]_vars /\ Fairness

\* ------------------------------------------- operations side by side on a client
\* What the server answers in this part: a page or value, a 429 or a 404.
ParOutcomes ==
    { NetOk(200, Body(TRUE, TRUE, TRUE, Absent, Absent, Absent)),
      NetOk(TooManyRequests, Body(TRUE, TRUE, FALSE, Str("Conflict"), Absent, Absent)),
      NetOk(404, Body(TRUE, TRUE, FALSE, Str("Not Found"), Str("no such customer"), Absent)) }

Ops == 1..MaxOps

\* The state of one operation: its future's locals.  seen lists the
\* outcomes of its attempts so far.
ParOp(kind) ==
    [kind |-> kind, pc |-> "idle", n_past_retries |-> 0, attempts |-> 0,
     cursor |-> None, pages |-> 0, yielded |-> <<>>, result |-> NoResult,
     seen |-> <<>>]

\* The operation sends its first attempt.
Started(st) ==
    [st EXCEPT !.pc = "inflight", !.attempts = 1,
               !.pages = IF st.kind = "stream" THEN 1 ELSE 0]

\* Mutant: the middleware keeps one retry count for the client.
RetryCount_shared(p, i) ==
    LET RECURSIVE Sum(_)
        Sum(k) == IF k = 0 THEN 0 ELSE p[k].n_past_retries + Sum(k - 1)
    IN  Sum(MaxOps)

\* The retry count the middleware consults for an attempt of operation i:
\* the local of the execution that sent it.
RetryCount(p, i) == p[i].n_past_retries

\* An attempt of the operation in state st returns outcome o, the retry
\* count being past: the middleware retries, or send_request returns and a
\* stream takes the page and sends the next request or ends.
Delivered(st, o, past) ==
    LET s1 == [st EXCEPT !.seen = Append(@, o)]
    IN  IF WillRetry(inner, o, past)
        THEN [s1 EXCEPT !.pc = "backoff", !.n_past_retries = @ + 1]
        ELSE IF st.kind = "request"
        THEN [s1 EXCEPT !.pc = "done", !.result = send_request(o, "value")]
        ELSE LET r == send_request(o, ServerPage(srvN, page_size, srvMode, st.cursor))
             IN  IF r.kind # "Ok"
                 THEN [s1 EXCEPT !.pc = "done", !.result = r]
                 ELSE IF LoopDecision(r.value.next_cursor) = "break"
                 THEN [s1 EXCEPT !.pc = "done", !.result = Ok("end"),
                                 !.yielded = @ \o PageData(r.value)]
                 ELSE [s1 EXCEPT !.pc = "inflight", !.n_past_retries = 0,
                                 !.attempts = @ + 1, !.pages = @ + 1,
                                 !.cursor = r.value.next_cursor,
                                 !.yielded = @ \o PageData(r.value)]

\* The backoff delay of the operation elapsed.
Resumed(st) == [st EXCEPT !.pc = "inflight", !.attempts = @ + 1]

\* Two or more operations on one client, each a get_customer or a
\* list_customers whose consumer polls without pause; the operations are
\* numbered with the get_customer calls first.
InitPar ==
    /\ Built([via |-> "builder", b |-> with_retry_policy(ClientBuilder_default, 1),
              key |-> "sk_live_A"])
    /\ op = "request"
    /\ call = OpCall("get_customer", "cus_1", NoArgs)
    /\ srvN \in 0..MaxLiveN
    /\ page_size = 1
    /\ srvMode = "exact"
    /\ srvShapes = AllNormal(srvN)
    /\ AtRest
    /\ NoConversion
    /\ par \in [Ops -> {ParOp("request"), ParOp("stream")}]
    /\ \A i \in Ops : i > 1 /\ par[i].kind = "request" => par[i - 1].kind = "request"

soloVars == <<confVars, sendVars, streamVars, diag, totalAttempts, enumVars>>

ParStart(i) ==
    /\ par[i].pc = "idle"
    /\ par' = [par EXCEPT ![i] = Started(@)]
    /\ UNCHANGED soloVars

ParAttemptReturns(i) ==
    /\ par[i].pc = "inflight"
    /\ \E o \in ParOutcomes :
         par' = [par EXCEPT ![i] = Delivered(@, o, RetryCount(par, i))]
    /\ UNCHANGED soloVars

ParRetryAfterBackoff(i) ==
    /\ par[i].pc = "backoff"
    /\ par' = [par EXCEPT ![i] = Resumed(@)]
    /\ UNCHANGED soloVars

NextPar ==
    \E i \in Ops : ParStart(i) \/ ParAttemptReturns(i) \/ ParRetryAfterBackoff(i)

SpecPar == InitPar /\ [][NextPar]_vars

NextEnum == SerializeEnum \/ DeserializeEnum

SpecEnum == InitEnum /\ [][NextEnum]_vars

\* ------------------------------------------------------------- type check
TypeOK ==
    /\ via \in {"new", "builder", "with_retry_policy"}
    /\ op \in {"request", "stream"}
    /\ pc \in {"idle", "inflight", "backoff", "done", "panicked"}
    /\ gen \in {"start", "await", "yield", "ended", "failed"}
    /\ consumer \in {"idle", "polling", "stopped", "dropped"}
    /\ lastPoll \in {"none", "item", "end", "err"}
    /\ n_past_retries \in 0..(DefaultMaxRetries + MaxRetriesBound)
    /\ attempts \in 0..(DefaultMaxRetries + MaxRetriesBound + 1)
    /\ result.kind \in {"none", "Ok", "Api", "Transport"}

\* ------------------------------------------------------ claims: pagination
\* The list as the server holds it.
ServerList == [i \in 1..srvN |-> i]

Max(a, b) == IF a > b THEN a ELSE b

\* The stream was consumed to its end without an error, against a server
\* that returns a cursor exactly when items remain.
ExhaustedExact == op = "stream" /\ srvMode = "exact" /\ gen = "ended"

\* C1 as stated: a fully consumed stream over N items in pages of P yields
\* the N items in server order and sends exactly ceil(N/P) page requests.
C1_Original ==
    ExhaustedExact =>
        /\ yielded = ServerList
        /\ pageRequests = CeilDiv(srvN, page_size)

\* C1 amended: a fully consumed stream over N items in pages of P yields the
\* N items in server order and sends exactly ceil(N/P) page requests when
\* N >= 1, and exactly one page request when the list is empty.
C1_Exhaustion ==
    ExhaustedExact =>
        /\ yielded = ServerList
        /\ pageRequests = Max(1, CeilDiv(srvN, page_size))

C1_Witness ==
    /\ ExhaustedExact
    /\ srvN = 3
    /\ page_size = 2
    /\ yielded = <<1, 2, 3>>
    /\ pageRequests = 2

\* C2: a consumer that stops polling after K < N items has caused at most
\* ceil(K/P) page requests, and no page request or attempt is sent once it
\* has stopped.
C2_EarlyStop ==
    /\ [](consumer = "stopped" /\ Len(yielded) < srvN
            => pageRequests <= CeilDiv(Len(yielded), page_size))
    /\ [][consumer = "stopped"
            => pageRequests' = pageRequests /\ attempts' = attempts /\ pc' = pc]_vars

C2_Witness ==
    /\ consumer = "stopped"
    /\ srvN = 4
    /\ page_size = 2
    /\ yielded = <<1, 2>>
    /\ pageRequests = 1

\* The page the stream received last carried no next_cursor.
LastPage ==
    /\ op = "stream"
    /\ pc = "done"
    /\ result.kind = "Ok"
    /\ ~result.value.next_cursor.some

\* The last k elements of s.
Suffix(s, k) == SubSeq(s, Len(s) - k + 1, Len(s))

\* C3: once a page without next_cursor has been received, no further page
\* request is sent; the stream yields that page's items and then ends
\* without an error, and if the page is empty it ends at once.
C3_NullCursorEnds ==
    /\ [](LastPage =>
            /\ gen \in {"yield", "ended"}
            /\ streamErr = NoResult
            /\ result.value.data = <<>> => gen = "ended"
            /\ gen = "ended" =>
                 /\ lastPoll = "end"
                 /\ Len(yielded) >= Len(result.value.data)
                 /\ Suffix(yielded, Len(result.value.data)) = result.value.data)
    /\ [][LastPage =>
            /\ pageRequests' = pageRequests
            /\ attempts' = attempts
            /\ pc' = "done"
            /\ (gen = "yield" /\ buffer = <<>> /\ consumer' \notin {"stopped", "dropped"})
                 => gen' = "ended"]_vars

C3_Witness ==
    /\ LastPage
    /\ srvMode = "trailing"
    /\ srvN = 2
    /\ page_size = 2
    /\ result.value.data = <<>>
    /\ yielded = <<1, 2>>
    /\ pageRequests = 2
    /\ gen = "ended"

\* ----------------------------------------------------------- claims: retry
\* The class of an answer with the given status.
Answer(status) == [net |-> "ok", status |-> status]

\* The first k attempts of the current logical request were all answered 429.
All429(k) == \A i \in 1..k : history[i] = Answer(TooManyRequests)

\* The current logical request has got its last answer.
Answered == pc = "done" /\ Len(history) = attempts

\* What a well-typed 2xx body decodes to for the current logical request.
Expected ==
    IF op = "request" THEN Ok("value")
    ELSE Ok(ServerPage(srvN, page_size, srvMode, cursor))

\* C4: under max_retries = M, a logical request answered 429 R times and
\* then 200, with R < M, is re-sent after each 429 and returns the decoded
\* result after exactly R+1 attempts.
C4_RetryOn429 ==
    (inner.retrying /\ history # <<>> /\ Len(history) - 1 < inner.max_n_retries
       /\ All429(Len(history) - 1)) =>
        LET last == history[Len(history)] IN
        /\ (last = Answer(TooManyRequests) /\ Len(history) < inner.max_n_retries)
             => /\ pc \in {"backoff", "inflight"}
                /\ attempts \in {Len(history), Len(history) + 1}
        /\ last = Answer(200)
             => /\ pc = "done"
                /\ attempts = Len(history)
                /\ (response.body.readable /\ response.body.json /\ response.body.typed)
                     => result = Expected

C4_Witness ==
    /\ inner.retrying
    /\ inner.max_n_retries = 2
    /\ history = <<Answer(TooManyRequests), Answer(200)>>
    /\ attempts = 2
    /\ result = Ok("value")

\* C5: under max_retries = M, a logical request answered 429 on every
\* attempt is re-sent M times, stops after exactly M+1 attempts, and returns
\* an API error with status 429; no logical request has more than M+1
\* attempts.
C5_RetryExhaustion ==
    inner.retrying =>
        /\ attempts <= inner.max_n_retries + 1
        /\ (history # <<>> /\ All429(Len(history))) =>
             IF Len(history) <= inner.max_n_retries
             THEN pc \in {"backoff", "inflight"}
             ELSE /\ Answered
                  /\ attempts = inner.max_n_retries + 1
                  /\ result.kind # "Ok"
                  /\ response.body.readable =>
                       (result.kind = "Api" /\ result.status_code = TooManyRequests)

C5_Witness ==
    /\ inner.retrying
    /\ inner.max_n_retries = 2
    /\ history = <<Answer(TooManyRequests), Answer(TooManyRequests), Answer(TooManyRequests)>>
    /\ attempts = 3
    /\ pc = "done"
    /\ result.kind = "Api"
    /\ result.status_code = TooManyRequests

\* C6: an answer whose status is not 429 is never retried: it is the last
\* attempt of its logical request, and a first answer of 404 or 500 gives an
\* API error with that status after exactly one attempt, under every policy.
C6_NoRetryOnOtherStatus ==
    /\ \A i \in 1..Len(history) :
         (history[i].net = "ok" /\ history[i].status # TooManyRequests)
           => /\ i = Len(history)
              /\ pc = "done"
              /\ attempts = i
              /\ response.status = history[i].status
    /\ (pc = "done" /\ history # <<>> /\ history[1].net = "ok"
          /\ history[1].status \in {404, 500})
         => /\ attempts = 1
            /\ result.kind # "Ok"
            /\ response.body.readable =>
                 (result.kind = "Api" /\ result.status_code = history[1].status)

C6_Witness ==
    /\ inner.retrying
    /\ inner.max_n_retries = DefaultMaxRetries
    /\ history = <<Answer(500)>>
    /\ attempts = 1
    /\ pc = "done"
    /\ result.kind = "Api"
    /\ result.status_code = 500

\* ------------------------------------------------ claims: response decoding
\* send_request returned on a response with a non-2xx status whose body
\* arrived.
ErrorResponded ==
    /\ pc = "done"
    /\ response.net = "ok"
    /\ ~is_success(response.status)
    /\ response.body.readable

\* The body is a JSON object with a string title, a detail that is absent,
\* null or a string, and validation_errors that are absent or a list.
StructuredError(b) ==
    /\ b.json
    /\ b.title.t = "str"
    /\ b.detail.t # "num"
    /\ b.validation_errors.t \in {"absent", "arr"}

\* C7: a non-2xx response whose body is not a structured error gives an API
\* error with the response's status, the title "decoding failure", a fixed
\* detail and no validation errors: nothing of the body is in it.
C7_ErrorBodyFallback ==
    (ErrorResponded /\ ~StructuredError(response.body)) =>
        result = [kind |-> "Api",
                  status_code |-> response.status,
                  title |-> "decoding failure",
                  detail |-> Some("unable to decode API response as JSON"),
                  validation_errors |-> <<>>]

C7_Witness ==
    /\ ErrorResponded
    /\ response.status = 500
    /\ response.body.json
    /\ response.body.title = Absent
    /\ response.body.detail = Str("secret detail")
    /\ result.kind = "Api"
    /\ result.title = "decoding failure"

\* C8: a non-2xx response whose body is a structured error gives an API
\* error with exactly the response's status and the body's title, detail
\* (none when absent) and validation_errors (empty when absent).
C8_StructuredErrorSurfaced ==
    (ErrorResponded /\ StructuredError(response.body)) =>
        /\ result.kind = "Api"
        /\ result.status_code = response.status
        /\ result.title = response.body.title.s
        /\ result.detail =
             IF response.body.detail.t = "str"
             THEN Some(response.body.detail.s) ELSE None
        /\ result.validation_errors =
             IF response.body.validation_errors.t = "arr"
             THEN response.body.validation_errors.a ELSE <<>>

C8_Witness ==
    /\ ErrorResponded
    /\ response.status = 409
    /\ response.body.title = Str("Conflict")
    /\ response.body.detail = Absent
    /\ result = ApiError(409, "Conflict", None, <<>>)

\* C9: a 2xx response whose body does not decode as the expected type gives
\* a transport error, never a success and never an API error.
C9_SuccessDecodeFailure ==
    (pc = "done" /\ response.net = "ok" /\ is_success(response.status)
       /\ ~(response.body.readable /\ response.body.json /\ response.body.typed))
      => result.kind = "Transport"

C9_Witness ==
    /\ pc = "done"
    /\ response.net = "ok"
    /\ response.status = 200
    /\ response.body.readable
    /\ response.body.json
    /\ ~response.body.typed
    /\ result = Transport("decode")

\* ------------------------------------------------- claims: the default policy
\* The client was built without a call of with_retry_policy.
Unconfigured == via \in {"new", "builder"}

\* A 429 answer or a transient network failure.
Retryable(c) == c = Answer(TooManyRequests) \/ c = [net |-> "transient", status |-> 0]

\* C10 as stated: a client built without with_retry_policy sends exactly one
\* attempt per logical request.
C10_Original == Unconfigured => attempts <= 1

\* C10 amended: a client built without with_retry_policy carries the default
\* policy of 5 retries: it re-sends after each 429 answer and each transient
\* network failure, up to 6 attempts per logical request.
C10_DefaultPolicyRetries ==
    Unconfigured =>
        /\ inner.retrying
        /\ inner.max_n_retries = DefaultMaxRetries
        /\ attempts <= DefaultMaxRetries + 1
        /\ (history # <<>> /\ Len(history) <= DefaultMaxRetries
              /\ \A i \in 1..Len(history) : Retryable(history[i]))
             => pc \in {"backoff", "inflight"}

C10_Witness ==
    /\ via = "new"
    /\ attempts = DefaultMaxRetries + 1
    /\ pc = "done"
    /\ All429(DefaultMaxRetries + 1)
    /\ result.kind = "Api"
    /\ result.status_code = TooManyRequests

\* ------------------------------------------- claims: the stream's discipline
\* A page request is awaiting its answer or its next attempt.
Pending == pc \in {"inflight", "backoff"}

\* The offset a cursor names.
Offset(c) == IF c.some THEN c.val ELSE 0

\* C11: page requests are sent one after another in cursor order: a page
\* request is pending only inside a poll and with no fetched item left to
\* deliver; each new page request is sent when none is pending, on a poll of
\* the consumer, and carries no cursor if it is the first and otherwise the
\* next_cursor of the response received before it.
C11_SequentialOnDemand ==
    /\ [](op = "stream" /\ Pending =>
            /\ consumer \in {"polling", "dropped"}
            /\ gen = "await"
            /\ buffer = <<>>)
    /\ [][pageRequests' # pageRequests =>
            /\ pageRequests' = pageRequests + 1
            /\ ~Pending
            /\ consumer = "idle"
            /\ consumer' = "polling"
            /\ buffer = <<>>
            /\ IF pageRequests = 0
               THEN cursor' = None
               ELSE /\ result.kind = "Ok"
                    /\ result.value.next_cursor.some
                    /\ cursor' = result.value.next_cursor]_vars

C11_Witness ==
    /\ op = "stream"
    /\ pc = "inflight"
    /\ pageRequests = 2
    /\ page_size = 2
    /\ cursor = Some(2)
    /\ yielded = <<1, 2>>
    /\ consumer = "polling"

\* C12: when the fetch of a page fails, the stream yields the error and is
\* finished: the consumer has received exactly the items of the pages before
\* it, and afterwards nothing more is yielded or sent and every poll returns
\* the end of the stream.
C12_ErrorEndsStream ==
    /\ [](streamErr # NoResult =>
            /\ gen = "failed"
            /\ pc = "done"
            /\ streamErr = result
            /\ streamErr.kind \in {"Api", "Transport"}
            /\ lastPoll \in {"err", "end"}
            /\ yielded = SubSeq(ServerList, 1, Offset(cursor)))
    /\ [][streamErr # NoResult =>
            /\ gen' = "failed"
            /\ streamErr' = streamErr
            /\ yielded' = yielded
            /\ pageRequests' = pageRequests
            /\ attempts' = attempts
            /\ lastPoll' \in {lastPoll, "end"}]_vars

C12_Witness ==
    /\ gen = "failed"
    /\ pageRequests = 2
    /\ page_size = 2
    /\ yielded = <<1, 2>>
    /\ streamErr.kind = "Transport"
    /\ lastPoll = "end"

\* C13: once the stream is dropped nothing is sent for it again, and page
\* requests and attempts are sent only while the consumer is polling.
C13_DropStopsRequests ==
    /\ [][consumer = "dropped" =>
            /\ consumer' = "dropped"
            /\ pageRequests' = pageRequests
            /\ attempts' = attempts
            /\ pc' = pc
            /\ yielded' = yielded]_vars
    /\ [][(op = "stream" /\ (pageRequests' # pageRequests \/ attempts' # attempts))
            => consumer' = "polling"]_vars

C13_Witness ==
    /\ consumer = "dropped"
    /\ pc = "backoff"
    /\ pageRequests = 2
    /\ yielded = <<1>>
    /\ srvN = 3

\* C14: whatever the page size and however the server ends the list, a fully
\* consumed stream yields the items of the list in server order, so two page
\* sizes give the same stream; only the number of page requests differs.
C14_PageSizeInvisible ==
    (op = "stream" /\ gen = "ended") =>
        /\ yielded = ServerList
        /\ pageRequests >= CeilDiv(srvN, page_size)
        /\ pageRequests <= srvN \div page_size + 1

C14_Witness ==
    /\ op = "stream"
    /\ gen = "ended"
    /\ srvN = 3
    /\ page_size = 1
    /\ pageRequests = 3
    /\ yielded = <<1, 2, 3>>

\* ------------------------------------------ claims: what a request carries
\* The operations whose request struct holds an idempotency key.
IdempotentCall ==
    call.name \in {"create_customer", "create_subscription", "schedule_plan_change"}

\* C17: a request of create_customer, create_subscription or
\* schedule_plan_change carries the header Idempotency-Key with value k when
\* its idempotency_key is Some(k) and no such header when it is None, on the
\* first attempt and on every retry; its JSON body never has a member
\* idempotency_key.
C17_IdempotencyKeyInHeader ==
    (IdempotentCall /\ wire # NoWire) =>
        /\ wire.headers["Idempotency-Key"] = call.args.idempotency_key
        /\ wire.body.some
        /\ \A m \in wire.body.val : m[1] # "idempotency_key"
        /\ \A k \in IdempotencyKeys : k.some => \A m \in wire.body.val : m[2] # k.val

C17_Witness ==
    /\ call.name = "schedule_plan_change"
    /\ call.args.idempotency_key = Some("idem-1")
    /\ attempts = 2
    /\ pc = "inflight"
    /\ wire.headers["Idempotency-Key"] = Some("idem-1")
    /\ <<"plan_id", "plan_2">> \in wire.body.val

\* s starts with p.
IsPrefix(p, s) == Len(p) <= Len(s) /\ SubSeq(s, 1, Len(p)) = p

\* C18: every HTTP request sent, for every operation, every retry and every
\* page of a stream, carries the bearer authorization built from the
\* client's api_key, and its URL is the client's endpoint extended by the
\* operation's path.
C18_AuthAndEndpoint ==
    /\ attempts > 0 => wire # NoWire
    /\ wire # NoWire =>
         /\ wire.headers["Authorization"] = Some(Bearer(api_key))
         /\ wire.url.host = endpoint.host
         /\ IsPrefix(endpoint.path, wire.url.path)
         /\ Len(wire.url.path) > Len(endpoint.path)

C18_Witness ==
    /\ op = "stream"
    /\ endpoint = CustomEndpoint
    /\ pageRequests = 2
    /\ attempts = 2
    /\ pc = "inflight"
    /\ wire.url = Url("orb.example.test", <<"customers">>)
    /\ wire.query = << <<"limit", 2>>, <<"cursor", 2>> >>
    /\ wire.headers["Authorization"] = Some(Bearer("sk_live_B"))

\* C19 as stated: the api_key is in no error value returned and in no
\* diagnostic output, the failure log of send_request and the Debug
\* rendering of the client included.
C19_Original ==
    /\ api_key \notin ResultStrings(result)
    /\ api_key \notin ResultStrings(streamErr)
    /\ api_key \notin diag

\* A 3xx answer.
IsRedirect(c) == c.net = "ok" /\ c.status >= 300 /\ c.status < 400

\* C20: a 3xx answer is the final response of its request: nothing is sent
\* to the redirect target, no further attempt follows, and send_request
\* returns it as a non-2xx response, an API error with the 3xx status when
\* its body arrives.
C20_RedirectIsFinal ==
    /\ wire # NoWire => wire.url.host = endpoint.host
    /\ \A i \in 1..Len(history) :
         IsRedirect(history[i]) =>
             /\ i = Len(history)
             /\ attempts = i
             /\ pc = "done"
             /\ Class(response) = history[i]
             /\ result.kind \in {"Api", "Transport"}
             /\ result.kind = "Api" => result.status_code = history[i].status
             /\ response.body.readable => result.kind = "Api"

C20_Witness ==
    /\ via = "new"
    /\ op = "request"
    /\ pc = "done"
    /\ attempts = 1
    /\ response.status = 301
    /\ result.kind = "Api"
    /\ result.status_code = 301
    /\ result.title = "Not Found"
    /\ wire.url.host = "api.billwithorb.com"

\* ------------------------------------------ claims: enumerated strings
\* The type converted has a fallback variant.
HasFallback == Ty.other

\* C15: for PaymentProvider, SubscriptionStatus and TaxIdType, encoding a
\* known value and decoding the result returns the same value; decoding an
\* unrecognized string s returns Other(s); re-encoding Other(s) gives
\* exactly s.
C15_EnumRoundTrip ==
    HasFallback =>
        \A i \in 1..Len(enumTrace) :
            /\ (enumTrace[i].k = "known" /\ i + 2 <= Len(enumTrace)) =>
                   /\ enumTrace[i + 1].k = "wire"
                   /\ enumTrace[i + 2] = enumTrace[i]
            /\ (enumTrace[i].k = "wire" /\ enumTrace[i].s \notin KnownWire(Ty)
                  /\ i + 1 <= Len(enumTrace)) =>
                   enumTrace[i + 1] = Other(enumTrace[i].s)
            /\ (enumTrace[i].k = "other" /\ i + 1 <= Len(enumTrace)) =>
                   enumTrace[i + 1] = Wire(enumTrace[i].s)

C15_Witness ==
    /\ enumTy = "TaxIdType"
    /\ enumTrace =
         << Wire(<<"a", "r", "c", "h", "i", "v", "e", "d">>),
            Other(<<"a", "r", "c", "h", "i", "v", "e", "d">>),
            Wire(<<"a", "r", "c", "h", "i", "v", "e", "d">>) >>

\* C16 as stated: decoding an enumerated string of a response never fails,
\* whatever the type and the string.
C16_Original ==
    \A i \in 1..Len(enumTrace) : enumTrace[i] # DecodeError

\* --------------------------------------------- claims: transient failures
\* The class of an attempt that failed at the network level in a transient
\* way (connection reset, timeout, DNS failure).
TransientFailure == [net |-> "transient", status |-> 0]

\* C24: under max_retries = M, an attempt that fails with a transient
\* network failure is retried while retries remain; when attempt M+1 fails
\* that way too, the operation returns a transport error holding that last
\* failure, not an API error and not a success.
C24_TransientFailureRetried ==
    inner.retrying =>
        \A i \in 1..Len(history) :
            history[i] = TransientFailure =>
                IF i <= inner.max_n_retries
                THEN \/ pc = "backoff" /\ attempts = i /\ i = Len(history)
                     \/ attempts > i
                ELSE /\ i = Len(history)
                     /\ Answered
                     /\ attempts = inner.max_n_retries + 1
                     /\ response = NetErr("transient")
                     /\ result = Transport("network")

C24_Witness ==
    /\ inner.retrying
    /\ inner.max_n_retries = 2
    /\ history = <<TransientFailure, TransientFailure, TransientFailure>>
    /\ attempts = 3
    /\ pc = "done"
    /\ result = Transport("network")

\* ------------------------------------------ claims: the endpoint's validity
\* C21 as stated: the endpoint is checked when the client is built, so no
\* operation on a built client panics in build_request because of it.
C21_Original == pc # "panicked"

\* ------------------------------------- claims: what a retry decision reads
\* The retry decision as a function of the outcome class of the attempt and
\* of the retries already made, under the client's policy.
RetryRule(client, class, past) ==
    /\ client.retrying
    /\ class \in {Answer(TooManyRequests), TransientFailure}
    /\ past < client.max_n_retries

OfShape(seq, sh) == SelectSeq(seq, LAMBDA i : srvShapes[i] = sh)

\* The records the consumer received as items, in the order received.
ItemsListed ==
    LET oks == SelectSeq(listed, LAMBDA x : x.kind = "Ok")
    IN  [i \in 1..Len(oks) |-> oks[i].value]

\* C30: list_customers and list_subscriptions yield exactly the records of
\* the fetched pages that have the normal shape, in server order, and leave
\* out every tombstone with deleted = true; the records taken from the pages
\* are the server's, in order, and all of them once the stream has ended.
C30_TombstonesOmitted ==
    Filtered =>
        /\ yielded = [i \in 1..Len(yielded) |-> i]
        /\ ItemsListed = OfShape(yielded, "normal")
        /\ gen = "ended" => Len(yielded) = srvN
        /\ Len(ItemsListed) <= Len(yielded)

\* A page made only of a tombstone yields nothing and the next page is
\* fetched: one item took two page fetches, more than ceil(1 / page_size).
C30_Witness ==
    /\ call.name = "list_customers"
    /\ page_size = 1
    /\ srvShapes = <<"deleted", "normal">>
    /\ ItemsListed = <<2>>
    /\ pageRequests = 2
    /\ pageRequests > CeilDiv(Len(ItemsListed), page_size)
    /\ Len(yielded) = 2

\* The positions of listed that hold the error made of a tombstone with
\* deleted = false.
TombstoneErrors == {i \in 1..Len(listed) : listed[i].kind = "UnexpectedResponse"}

\* C22 as stated: a tombstone with deleted = false is neither left out nor
\* returned as a record; the error it makes is of the transport kind, and it
\* is the last thing the stream returns.
C22_Original ==
    Filtered =>
        /\ Cardinality({i \in 1..Len(listed) : listed[i].kind \notin {"Ok", "Api"}})
             >= Len(OfShape(yielded, "undeleted"))
        /\ \A i \in 1..Len(listed) :
             listed[i].kind \in {"Ok", "Transport", "Api"}
        /\ \A i \in 1..Len(listed) :
             listed[i].kind # "Ok" => i = Len(listed)

\* The stream returns an item after the error of a tombstone.
C22_StreamGoesOn ==
    \E i \in TombstoneErrors : i < Len(listed) /\ listed[i + 1].kind = "Ok"

\* The cursor the server reads from a request: that of its last cursor pair.
WireCursor(w) ==
    LET cs == SelectSeq(w.query, LAMBDA q : q[1] = "cursor")
    IN  IF cs = <<>> THEN None ELSE Some(cs[Len(cs)][2])

\* C28: every page request is the operation's request (method, URL, headers,
\* body and query pairs) followed by one limit pair holding the page size;
\* the first carries no cursor, and each later one carries one cursor pair,
\* the next_cursor of the answer to the request before it.  A retry sends
\* the request again as it is.
C28_PageRequestShape ==
    [][LET base == OperationRequest(Self, call)
           n == Len(base.query)
           w == wire'
       IN  IF pageRequests' = pageRequests + 1
           THEN /\ w.method = base.method
                /\ w.url = base.url
                /\ w.headers = base.headers
                /\ w.body = base.body
                /\ Len(w.query) >= n + 1
                /\ SubSeq(w.query, 1, n) = base.query
                /\ w.query[n + 1] = <<"limit", page_size>>
                /\ IF pageRequests = 0
                   THEN Len(w.query) = n + 1
                   ELSE LET prev == ServerPage(srvN, page_size, srvMode, WireCursor(wire))
                        IN  /\ Len(w.query) = n + 2
                            /\ prev.next_cursor.some
                            /\ w.query[n + 2] = <<"cursor", prev.next_cursor.val>>
           ELSE w = wire]_vars

\* The third request of search_events: the POST with its body, one limit and
\* the cursor of the second page's answer alone.
C28_Witness ==
    /\ call.name = "search_events"
    /\ pageRequests = 3
    /\ page_size = 1
    /\ wire.method = "POST"
    /\ wire.body = Some({<<"event_ids", "evt_1">>})
    /\ wire.query = <<<<"limit", 1>>, <<"cursor", 2>>>>

LastAnswer == ServerPage(srvN, page_size, srvMode, cursor)

\* C25: against a server that ends the list after finitely many pages, a
\* consumer that keeps polling eventually gets None from the stream; and a
\* stream ends only on an answer without next_cursor or after an error, so
\* against a server that returns a cursor with every page it has not ended
\* however many pages were fetched and however often a cursor came again.
C25_EventuallyEnds ==
    /\ (srvMode # "looping") ~> (lastPoll = "end")
    /\ [](gen = "ended" => ~LastAnswer.next_cursor.some)
    /\ []((lastPoll = "end" /\ gen # "ended") => (gen = "failed" /\ streamErr.kind # "none"))
    /\ [](srvMode = "looping" => gen # "ended")

\* The consumer got every item of a list of two pages and then None.
C25_Witness ==
    /\ srvMode = "exact"
    /\ srvN = 2
    /\ page_size = 1
    /\ pageRequests = 2
    /\ yielded = <<1, 2>>
    /\ gen = "ended"
    /\ lastPoll = "end"

\* The looping server was asked for its first page MaxPages times and the
\* stream has not ended.
C25_LoopingWitness ==
    /\ srvMode = "looping"
    /\ pageRequests = MaxPages
    /\ cursor = Some(0)
    /\ gen = "yield"

\* An operation with its backoff delay, if it is in one, elapsed.
PastBackoff(st) == IF st.pc = "backoff" THEN Resumed(st) ELSE st

RECURSIVE Alone(_, _)
\* The state of an operation that receives the outcomes s, one per attempt,
\* with nothing else running on the client.
Alone(st, s) ==
    IF s = <<>> THEN st
    ELSE Alone(Delivered(PastBackoff(st), Head(s), PastBackoff(st).n_past_retries),
               Tail(s))

====
